---- MODULE Spec2Model ----
(***************************************************************************)
(* The venous pressure annotation scripts of Chsollen/Stenting-Code.        *)
(*                                                                         *)
(* Every script is a Streamlit page: one user interaction (a click on the   *)
(* image, a button, a widget change) makes one run of the whole script     *)
(* against st.session_state.  One action of this module is one such run.   *)
(* Three scripts are modelled, chosen by `variant`:                        *)
(*   "beefed_up_venous"  Stenosis vocabulary, sides, rotation, relay call  *)
(*   "test"              Occlusion vocabulary, no sides, no rotation       *)
(*   "venous_stent"      Occlusion vocabulary, drawable canvas             *)
(* testv2.py has the statements of beefed_up_venous.py for the session     *)
(* state (clicks, forms, save, delete, rotation, markers) without the      *)
(* relay call, so its session is the one of "beefed_up_venous" with the    *)
(* relay left out.  Its export block differs (the summary table) and is    *)
(* modelled with the export blocks of the other scripts (ExportSpec).      *)
(* main.py, the relay the front end posts to, is a process of its own      *)
(* (RelaySpec).                                                            *)
(***************************************************************************)
EXTENDS Integers, Sequences, FiniteSets, TLC

(***************************************************************************)
(* Bounds of the model.                                                    *)
(***************************************************************************)
\* largest number of circles drawn on the canvas
MaxObjects == 3
\* largest annotation id handed out
MaxId == 2

\* pixel coordinates a click can have.  (103,203) is within the tolerance of
\* all the others; (105,203) is exactly the tolerance away from (100,200) on
\* the x axis and closer on the y axis; (103,205) is exactly the tolerance
\* away from (100,200) on the y axis and closer on the x axis.
Coords ==
  { [x |-> 100, y |-> 200], [x |-> 103, y |-> 203],
    [x |-> 105, y |-> 203], [x |-> 103, y |-> 205] }

\* where a circle can be drawn on the canvas: (103,203) is within the
\* tolerance of the two others, which are not within it of each other
CanvasCoords ==
  { [x |-> 100, y |-> 200], [x |-> 103, y |-> 203], [x |-> 105, y |-> 203] }

\* text typed into the pressure field
ValueInputs == { "12" }
\* what the pressure field may hold from before when a location without
\* measurement is chosen (the field is not shown then)
StaleValueInputs == { "", "12" }

(***************************************************************************)
(* Vocabulary.                                                             *)
(***************************************************************************)
LOCATIONS ==
  << "Select...", "Torcula", "Posterior superior sagittal sinus",
     "Mid superior sagittal sinus", "Medial transverse sinus",
     "Lateral transverse sinus", "Transverse-sigmoid junction",
     "Sigmoid sinus", "Jugular bulb", "Internal jugular vein",
     "Internal jugular vein origin", "Subclavian", "Superior Vena Cava",
     "Inferior Vena Cava", "Stenosis", "Pre-Stenosis", "Post-Stenosis" >>

SIDE_REQUIRED ==
  { "Medial transverse sinus", "Lateral transverse sinus",
    "Transverse-sigmoid junction", "Sigmoid sinus", "Jugular bulb",
    "Internal jugular vein", "Internal jugular vein origin", "Subclavian" }

LOCATIONS_test ==
  << "Select...", "Torcula", "Posterior superior sagittal sinus",
     "Mid superior sagittal sinus", "Right medial transverse sinus",
     "Right lateral transverse sinus", "Right transverse-sigmoid junction",
     "Right sigmoid sinus", "Right jugular bulb",
     "Right internal jugular vein", "Occlusion" >>

LOCATIONS_stent ==
  << "Select...", "Torcula", "Posterior superior sagittal sinus",
     "Mid superior sagittal sinus", "Right medial transverse sinus",
     "Right lateral transverse sinus", "Right transverse-sigmoid junction",
     "Right sigmoid sinus", "Right jugular bulb",
     "Right internal jugular vein", "Occlusion" >>

\* options of the side selectbox
SIDES == << "Select...", "Left", "Right" >>

tolerance == 5

Range(s) == { s[i] : i \in 1..Len(s) }

Abs(n) == IF n < 0 THEN -n ELSE n

Variants == { "beefed_up_venous", "test", "venous_stent" }

\* the scripts that record clicks with add_clicked_point
PlotlyVariants == { "beefed_up_venous", "test" }

\* the scripts with the Stenosis vocabulary, sides and rotation
SideVariants == { "beefed_up_venous" }

\* the scripts with an export block; testv2.py has the Stenosis vocabulary
Scripts == Variants \cup { "testv2" }
StenosisScripts == { "beefed_up_venous", "testv2" }

\* The entries of the location selectbox a run of the model picks from: the
\* sentinel, one location without side, side-required locations and the
\* no-measurement location of the script's vocabulary.
LocationPicks == { 1, 2, 8, 15 }
LocationPicks_test == { 1, 2, 8, 11 }

LocationChoices(v) ==
  IF v \in SideVariants
    THEN { LOCATIONS[i] : i \in LocationPicks }
    ELSE IF v = "test" THEN { LOCATIONS_test[i] : i \in LocationPicks_test }
         ELSE { LOCATIONS_stent[i] : i \in LocationPicks_test }

\* st.secrets has no api_keys.my_service entry: the lookup of line 72 raises
\* before any request is made
NoSecret == -1

\* requests.post raises (nothing listens on the port)
PostRaised == 0

\* what send_annotation_to_api comes to: the status code of the relay's
\* answer as the front end sees it, or one of the two exceptions
RelayOutcomes == { 200, 403, PostRaised, NoSecret }

\* the secret of st.secrets["api_keys"]["my_service"]
LocalSecret == "my_service"

VARIABLES
  variant,          \* which script the session runs
  annotations,      \* st.session_state.annotations
  next_id,          \* st.session_state.next_id
  clicked_points,   \* st.session_state.clicked_points
  rotation_angle,   \* st.session_state.rotation_angle
  new_clicked,      \* the value plotly_events returns (kept between runs)
  figure_changed,   \* the last run recorded a click: the figure of the next
                    \* run has a marker more than the one plotly_events got
  objects,          \* canvas_result.json_data["objects"] (venous_stent)
  forms,            \* points whose input form the last run rendered
  sidebar,          \* ids the last run listed in the sidebar with a Delete button
  markers,          \* colours of the markers the last run drew on export
  messages,         \* st.error / st.success / st.info calls of the last run
  sent,             \* POST requests the last run sent to the relay, each
                    \* with the status it came back with
  aborted,          \* the last run was ended by an exception nothing caught
  rerun,            \* the last run was ended by st.experimental_rerun(): the
                    \* script runner is about to run the script again
  assigned_ids,     \* history: every id an annotation was ever created with
  installed,        \* font files ImageFont.truetype could open in the last export
  base_font,        \* the font the last export loaded ("" when it did not export)
  drawn,            \* text and font of what the last export drew per annotation
  summary,          \* df_summary of the last export, a row is << location, value >>
  request,          \* main.py: the request the relay handled last
  response          \* main.py: its response

vars == << variant, annotations, next_id, clicked_points, rotation_angle,
           new_clicked, figure_changed, objects, forms, sidebar, markers, messages, sent,
           aborted, rerun, assigned_ids, installed, base_font, drawn, summary, request,
           response >>

(***************************************************************************)
(* add_clicked_point and the click capture loop.                           *)
(***************************************************************************)
\* mutant: the tolerance itself counts as a duplicate (<= instead of <)
IsDuplicate_inclusive(p, new_point) ==
  Abs(p.x - new_point.x) <= tolerance /\ Abs(p.y - new_point.y) <= tolerance

\* mutant: only points closer than 3 count as duplicates
IsDuplicate_narrow(p, new_point) ==
  Abs(p.x - new_point.x) < 3 /\ Abs(p.y - new_point.y) < 3

\* the test of add_clicked_point's loop body
IsDuplicate(p, new_point) ==
  Abs(p.x - new_point.x) < tolerance /\ Abs(p.y - new_point.y) < tolerance

\* mutant: only the last recorded point is compared
add_clicked_point_lastonly(points, new_point) ==
  IF points # << >> /\ IsDuplicate(points[Len(points)], new_point)
    THEN points
    ELSE Append(points, new_point)

\* mutant: only a point with the very same coordinates is a duplicate
add_clicked_point_exact(points, new_point) ==
  IF \E i \in 1..Len(points) : points[i] = new_point
    THEN points
    ELSE Append(points, new_point)

\* mutant: a new point is put in front of the recorded ones
add_clicked_point_front(points, new_point) ==
  IF \E i \in 1..Len(points) : IsDuplicate(points[i], new_point)
    THEN points
    ELSE << new_point >> \o points

add_clicked_point(points, new_point) ==
  IF \E i \in 1..Len(points) : IsDuplicate(points[i], new_point)
    THEN points
    ELSE Append(points, new_point)

\* for pt in new_clicked: add_clicked_point(...)
RECURSIVE CaptureClicks(_, _)
CaptureClicks(points, batch) ==
  IF batch = << >> THEN points
  ELSE CaptureClicks(add_clicked_point(points, Head(batch)), Tail(batch))

(***************************************************************************)
(* Reconciliation: the any(...) of step 3 and of the export markers.       *)
(***************************************************************************)
\* mutant: no point counts as annotated, every point gets a form
already_annotated_never(pt, anns) == FALSE

already_annotated(pt, anns) ==
  \E i \in 1..Len(anns) :
     Abs(anns[i].x - pt.x) < tolerance /\ Abs(anns[i].y - pt.y) < tolerance

annotated(pt, anns) ==
  \E i \in 1..Len(anns) :
     Abs(anns[i].x - pt.x) < tolerance /\ Abs(anns[i].y - pt.y) < tolerance

\* mutant: the comparison is > instead of !=
DeleteById_above(anns, id) == SelectSeq(anns, LAMBDA a : a.id > id)

\* mutant: the oldest annotation goes, whatever the id
DeleteById_oldest(anns, id) == Tail(anns)

\* the list comprehension of the sidebar delete
DeleteById(anns, id) == SelectSeq(anns, LAMBDA a : a.id # id)

(***************************************************************************)
(* One run of the script.  `st` is the part of the session the run has     *)
(* reached so far together with what it has rendered; `ev` is the          *)
(* interaction that caused the run:                                        *)
(*   type      "none", "click", "rotate", "save", "delete" or "export"     *)
(*   pt        the point whose Save button is down (type "save")           *)
(*   location, side, text   the values of that point's form widgets        *)
(*   id        the annotation whose Delete button is down (type "delete")  *)
(*   relay     what the POST to the relay comes back with                  *)
(***************************************************************************)
NoPoint == [x |-> 0, y |-> 0]

Event(type, pt, location, side, text, id, relay) ==
  [type |-> type, pt |-> pt, location |-> location, side |-> side,
   text |-> text, id |-> id, relay |-> relay]

PlainEvent(type) == Event(type, NoPoint, "Select...", "Select...", "", 0, 200)

Msg(kind, text, id) == [kind |-> kind, text |-> text, id |-> id]

StartRun(anns, nid) ==
  [annotations |-> anns, next_id |-> nid, forms |-> << >>,
   sidebar |-> << >>, markers |-> << >>, messages |-> << >>,
   sent |-> << >>, aborted |-> FALSE, rerun |-> FALSE,
   installed |-> {}, base_font |-> "", drawn |-> << >>, summary |-> << >>]

\* mutant: a status other than 200 makes the front end post once more
SendToApi_retry(st, annotation, relay) ==
  LET post == [api_key |-> LocalSecret, json |-> annotation, status |-> relay]
      st1 == [st EXCEPT !.sent = IF relay = 200 THEN Append(@, post)
                                 ELSE Append(Append(@, post), post)]
  IN IF relay = NoSecret
       THEN [st EXCEPT !.aborted = TRUE]
       ELSE IF relay = PostRaised
         THEN [st1 EXCEPT !.aborted = TRUE]
         ELSE IF relay = 200
           THEN [st1 EXCEPT !.messages =
                   Append(@, Msg("info", "Annotation successfully saved to backend!", 0))]
           ELSE [st1 EXCEPT !.messages =
                   Append(@, Msg("error", "Failed to save annotation to backend.", 0))]

\* send_annotation_to_api and the report of its status code.  Nothing
\* catches an exception out of the call, so it ends the run: the lookup of
\* the secret raises before a request is made, requests.post raises after
\* the request was handed to it
SendToApi(st, annotation, relay) ==
  LET post == [api_key |-> LocalSecret, json |-> annotation, status |-> relay]
      st1 == [st EXCEPT !.sent = Append(@, post)]
  IN IF relay = NoSecret
       THEN [st EXCEPT !.aborted = TRUE]
       ELSE IF relay = PostRaised
         THEN [st1 EXCEPT !.aborted = TRUE]
         ELSE IF relay = 200
           THEN [st1 EXCEPT !.messages =
                   Append(@, Msg("info", "Annotation successfully saved to backend!", 0))]
           ELSE [st1 EXCEPT !.messages =
                   Append(@, Msg("error", "Failed to save annotation to backend.", 0))]

\* side = "Select..." unless the location asks for a side (lines 150-152)
SideOf(location, side_widget) ==
  IF location \in SIDE_REQUIRED THEN side_widget ELSE "Select..."

\* mutant: the typed text is kept for Stenosis too
AnnotationValue_typed(location, text) ==
  IF location # "Select..." THEN text ELSE ""

\* annotation_value (lines 155-161)
AnnotationValue(location, text) ==
  IF location # "Select..."
    THEN IF location = "Stenosis" THEN "X" ELSE text
    ELSE ""

\* mutant: the button alone decides
SavePressed_anylocation(location, button) == button

\* location != "Select..." and st.button("Save Annotation") (line 164)
SavePressed(location, button) == location # "Select..." /\ button

\* mutant: the side check is gone
SideMissing_never(location, side) == FALSE

\* location in SIDE_REQUIRED and side == "Select..." (line 165)
SideMissing(location, side) ==
  location \in SIDE_REQUIRED /\ side = "Select..."

\* mutant: the side is stored for every location
NewAnnotation_alwaysside(nid, pt, location, side, value) ==
  [id |-> nid, x |-> pt.x, y |-> pt.y, location |-> location,
   value |-> value, side |-> side]

\* the annotation dict (lines 168-176)
NewAnnotation(nid, pt, location, side, value) ==
  IF location \in SIDE_REQUIRED
    THEN [id |-> nid, x |-> pt.x, y |-> pt.y, location |-> location,
          value |-> value, side |-> side]
    ELSE [id |-> nid, x |-> pt.x, y |-> pt.y, location |-> location,
          value |-> value]

\* mutant: next_id is not advanced
AppendAnnotation_noincrement(st, annotation) ==
  [st EXCEPT
     !.annotations = Append(@, annotation),
     !.messages = Append(@, Msg("success", "Annotation added!", annotation.id))]

\* append, next_id += 1, st.success (lines 177-179)
AppendAnnotation(st, annotation) ==
  [st EXCEPT
     !.annotations = Append(@, annotation),
     !.next_id = @ + 1,
     !.messages = Append(@, Msg("success", "Annotation added!", annotation.id))]

\* the body of the step 3 loop for one clicked point (beefed_up_venous.py)
FormStep(st, pt, ev) ==
  IF st.aborted \/ already_annotated(pt, st.annotations) THEN st
  ELSE
    LET st1 == [st EXCEPT !.forms = Append(@, pt)]
        button == ev.type = "save" /\ ev.pt = pt
        location == IF button THEN ev.location ELSE "Select..."
        side == SideOf(location, ev.side)
        annotation_value == AnnotationValue(location, ev.text)
    IN IF SavePressed(location, button)
         THEN IF SideMissing(location, side)
           THEN [st1 EXCEPT !.messages =
                   Append(@, Msg("error", "Please select a side (Left or Right) for this location.", 0))]
           ELSE
             LET annotation == NewAnnotation(st.next_id, pt, location, side,
                                             annotation_value)
             IN SendToApi(AppendAnnotation(st1, annotation), annotation, ev.relay)
         ELSE st1

\* for pt in st.session_state.clicked_points: ... (step 3)
RECURSIVE FormLoop(_, _, _, _)
FormLoop(st, points, i, ev) ==
  IF i > Len(points) THEN st
  ELSE FormLoop(FormStep(st, points[i], ev), points, i + 1, ev)

\* the body of the step 4 loop for one annotation of the copy
SidebarStep(st, ann, ev) ==
  LET st1 == [st EXCEPT !.sidebar = Append(@, ann.id)]
  IN IF ev.type = "delete" /\ ev.id = ann.id
       THEN [st1 EXCEPT
               !.annotations = DeleteById(@, ann.id),
               !.messages = Append(@, Msg("success", "Annotation deleted!", ann.id))]
       ELSE st1

\* for ann in st.session_state.annotations.copy(): ... (step 4)
RECURSIVE SidebarLoop(_, _, _, _)
SidebarLoop(st, copy, i, ev) ==
  IF i > Len(copy) THEN st
  ELSE SidebarLoop(SidebarStep(st, copy[i], ev), copy, i + 1, ev)

Sidebar(st, ev) ==
  IF st.aborted THEN st
  ELSE SidebarLoop(st, st.annotations, 1, ev)

\* the colour of each clicked point's marker on the left image (step 5)
MarkerColours(points, anns) ==
  [i \in 1..Len(points) |->
     IF annotated(points[i], anns) THEN "green" ELSE "red"]

\* the font files the scripts ask ImageFont.truetype for, in the order of
\* the nested try blocks
FONTS == << "arialbd.ttf", "arial.ttf", "DejaVuSans-Bold.ttf" >>

\* mutant: the regular face is tried before the bold one
LoadFont_regularfirst(files) ==
  IF "arial.ttf" \in files THEN "arial.ttf"
  ELSE IF "arialbd.ttf" \in files THEN "arialbd.ttf"
  ELSE IF "DejaVuSans-Bold.ttf" \in files THEN "DejaVuSans-Bold.ttf"
  ELSE "default"

\* the nested try/except around ImageFont.truetype: truetype raises for a
\* file that is not among `files`; "default" is ImageFont.load_default()
LoadFont(files) ==
  IF "arialbd.ttf" \in files THEN "arialbd.ttf"
  ELSE IF "arial.ttf" \in files THEN "arial.ttf"
  ELSE IF "DejaVuSans-Bold.ttf" \in files THEN "DejaVuSans-Bold.ttf"
  ELSE "default"

\* venous_stent.py asks for arial.ttf only
LoadFont_stent(files) ==
  IF "arial.ttf" \in files THEN "arial.ttf" ELSE "default"

\* the st.error of the innermost except block
FontWarning ==
  Msg("error", "No custom font available; falling back to default font (text may be small).", 0)

\* what the loop over the annotations draws on the right image
DrawnTexts(v, anns, font, files) ==
  [i \in 1..Len(anns) |->
     IF v \in StenosisScripts /\ anns[i].location = "Stenosis"
       THEN [text |-> "X", font |-> LoadFont(files)]
       ELSE [text |-> anns[i].value, font |-> font]]

\* the float pandas puts into the cell of a key the annotation does not have
NaN == "NaN"

\* str() of a cell inside an f-string
Format(cell) == IF cell = NaN THEN "nan" ELSE cell

\* bool() of a cell: the empty string is false, NaN is a non-zero float
Truthy(cell) == cell # ""

RECURSIVE lstrip(_)
lstrip(str) ==
  IF Len(str) > 0 /\ SubSeq(str, 1, 1) = " "
    THEN lstrip(SubSeq(str, 2, Len(str)))
    ELSE str

RECURSIVE rstrip(_)
rstrip(str) ==
  IF Len(str) > 0 /\ SubSeq(str, Len(str), Len(str)) = " "
    THEN rstrip(SubSeq(str, 1, Len(str) - 1))
    ELSE str

\* str.strip()
strip(str) == lstrip(rstrip(str))

\* pd.DataFrame(annotations) has a "side" column when some annotation has
\* the key
SideColumn(anns) == \E i \in 1..Len(anns) : "side" \in DOMAIN anns[i]

\* the "side" cell of an annotation's row in a frame with that column
SideCell(a) == IF "side" \in DOMAIN a THEN a.side ELSE NaN

\* Series.fillna("")
fillna(cell) == IF cell = NaN THEN "" ELSE cell

\* mutant: nothing is excluded
ExcludeReserved_nothing(anns, reserved) == anns

\* df_full[~df_full["location"].isin([reserved])] and
\* df_full[df_full["location"] != reserved]
ExcludeReserved(anns, reserved) ==
  SelectSeq(anns, LAMBDA a : a.location # reserved)

\* the lambda of beefed_up_venous.py (lines 288-291), after the fillna of
\* lines 285-286; row.get("side", "") is "" in a frame without the column
RowLocation(a, side_column) ==
  LET side == IF side_column THEN fillna(SideCell(a)) ELSE ""
  IN IF Truthy(side) /\ side # "Select..."
       THEN strip(Format(side) \o " " \o a.location)
       ELSE a.location

\* the lambda of testv2.py (lines 278-279): "side" in row is true in a frame
\* with the column, whatever the cell holds
RowLocation_testv2(a, side_column) ==
  IF side_column /\ SideCell(a) # "Select..."
    THEN Format(SideCell(a)) \o " " \o a.location
    ELSE a.location

\* mutant: the columns are projected in the other order
SummaryRow_swapped(location, value) == << value, location >>

\* df_summary[["location", "value"]]: one row of the projection
SummaryRow(location, value) == << location, value >>

\* df_summary of the export block of script v
Summary(v, anns) ==
  IF anns = << >> THEN << >>
  ELSE IF v \in StenosisScripts
    THEN LET kept == ExcludeReserved(anns, "Stenosis")
         IN [k \in 1..Len(kept) |->
               SummaryRow(IF v = "testv2"
                            THEN RowLocation_testv2(kept[k], SideColumn(anns))
                            ELSE RowLocation(kept[k], SideColumn(anns)),
                          kept[k].value)]
    ELSE LET kept == ExcludeReserved(anns, "Occlusion")
         IN [k \in 1..Len(kept) |-> SummaryRow(kept[k].location, kept[k].value)]

\* an export event carries the font files that can be opened during the run
ExportEvent(files) == PlainEvent("export") @@ [fonts |-> files]

\* ax.table(cellText=df_summary.values, ...) takes the number of columns
\* from the first row of cellText: for a summary without rows it raises
\* IndexError, which nothing catches, so the run ends before plt.savefig and
\* the download buttons
RenderTable(st) ==
  IF st.summary = << >> THEN [st EXCEPT !.aborted = TRUE] ELSE st

\* step 5 of script v: markers, fonts, the texts drawn, the summary table
\* (df_summary) and its rendering
ExportStep(v, st, points, ev) ==
  IF st.aborted \/ ev.type # "export" THEN st
  ELSE
    LET font == IF v = "venous_stent" THEN LoadFont_stent(ev.fonts)
                ELSE LoadFont(ev.fonts)
        warned == v # "venous_stent" /\ font = "default"
    IN RenderTable(
         [st EXCEPT
            !.markers = IF v = "venous_stent" THEN << >>
                        ELSE MarkerColours(points, st.annotations),
            !.messages = IF warned THEN Append(@, FontWarning) ELSE @,
            !.installed = ev.fonts,
            !.base_font = font,
            !.drawn = DrawnTexts(v, st.annotations, font, ev.fonts),
            !.summary = Summary(v, st.annotations)])

\* steps 3 to 5 of beefed_up_venous.py
RunStenosisScript(anns, nid, points, ev) ==
  ExportStep("beefed_up_venous",
             Sidebar(FormLoop(StartRun(anns, nid), points, 1, ev), ev),
             points, ev)

\* the body of the step 3 loop for one clicked point (test.py)
FormStep_test(st, pt, ev) ==
  IF already_annotated(pt, st.annotations) THEN st
  ELSE
    LET st1 == [st EXCEPT !.forms = Append(@, pt)]
        button == ev.type = "save" /\ ev.pt = pt
        location == IF button THEN ev.location ELSE "Select..."
        annotation_value ==
          IF location # "Select..."
            THEN IF location = "Occlusion" THEN "OCL" ELSE ev.text
            ELSE ""
    IN IF location # "Select..." /\ button
         THEN LET annotation == [id |-> st.next_id, x |-> pt.x, y |-> pt.y,
                                 location |-> location, value |-> annotation_value]
              IN [st1 EXCEPT
                    !.annotations = Append(@, annotation),
                    !.next_id = @ + 1,
                    !.messages = Append(@, Msg("success", "Annotation added!", annotation.id))]
         ELSE st1

RECURSIVE FormLoop_test(_, _, _, _)
FormLoop_test(st, points, i, ev) ==
  IF i > Len(points) THEN st
  ELSE FormLoop_test(FormStep_test(st, points[i], ev), points, i + 1, ev)

\* steps 3 to 5 of test.py
RunOcclusionScript(anns, nid, points, ev) ==
  ExportStep("test",
             Sidebar(FormLoop_test(StartRun(anns, nid), points, 1, ev), ev),
             points, ev)

(***************************************************************************)
(* venous_stent.py: the points are the circles of the drawable canvas.     *)
(***************************************************************************)
Circle(c) == [type |-> "circle", left |-> c.x, top |-> c.y]

\* the widgets of a form are keyed by the coordinates of its circle
\* (key=f"loc_{x}_{y}"), and a form is recorded when its selectbox is made:
\* the key of a circle was used in this run when a form of the run has its
\* coordinates
KeyUsed(st, x, y) == [x |-> x, y |-> y] \in Range(st.forms)

\* the body of the step 3 loop for one canvas object; a second selectbox
\* with a key already used in the run raises DuplicateWidgetID, which
\* nothing catches, so the run ends there
CanvasStep(st, obj, ev) ==
  IF st.aborted \/ obj.type # "circle" THEN st
  ELSE
    LET x == obj.left
        y == obj.top
        exists == \E i \in 1..Len(st.annotations) :
                     /\ Abs(st.annotations[i].x - x) < 5
                     /\ Abs(st.annotations[i].y - y) < 5
    IN IF exists THEN st
       ELSE IF KeyUsed(st, x, y) THEN [st EXCEPT !.aborted = TRUE]
       ELSE
         LET st1 == [st EXCEPT !.forms = Append(@, [x |-> x, y |-> y])]
             button == ev.type = "save" /\ ev.pt = [x |-> x, y |-> y]
             location == IF button THEN ev.location ELSE "Select..."
         IN IF location # "Select..."
              THEN LET annotation_value ==
                         IF location = "Occlusion" THEN "OCL" ELSE ev.text
                       annotation == [id |-> st.next_id, x |-> x, y |-> y,
                                      location |-> location, value |-> annotation_value]
                   IN IF button
                        THEN [st1 EXCEPT
                                !.annotations = Append(@, annotation),
                                !.next_id = @ + 1,
                                !.messages = Append(@, Msg("success", "Annotation added!", annotation.id))]
                        ELSE st1
              ELSE st1

RECURSIVE CanvasLoop(_, _, _, _)
CanvasLoop(st, objs, i, ev) ==
  IF i > Len(objs) THEN st
  ELSE CanvasLoop(CanvasStep(st, objs[i], ev), objs, i + 1, ev)

\* step 4 of venous_stent.py: the delete ends the run with
\* st.experimental_rerun(), so the loop stops at the deleted annotation
RECURSIVE SidebarLoop_stent(_, _, _, _)
SidebarLoop_stent(st, copy, i, ev) ==
  IF i > Len(copy) THEN st
  ELSE LET ann == copy[i]
           st1 == [st EXCEPT !.sidebar = Append(@, ann.id)]
       IN IF ev.type = "delete" /\ ev.id = ann.id
            THEN [st1 EXCEPT
                    !.annotations = DeleteById(@, ann.id),
                    !.messages = Append(@, Msg("success", "Annotation deleted!", ann.id)),
                    !.rerun = TRUE]
            ELSE SidebarLoop_stent(st1, copy, i + 1, ev)

\* steps 3 to 5 of one run of venous_stent.py; a run that step 3 ended
\* with an exception has no sidebar and no export, and a run that step 4
\* ended with st.experimental_rerun() has no export: it leaves the request
\* for another run behind (rerun)
RunCanvasScript(anns, nid, objs, ev) ==
  LET st3 == CanvasLoop(StartRun(anns, nid), objs, 1, ev)
  IN IF st3.aborted THEN st3
     ELSE LET st4 == SidebarLoop_stent(st3, st3.annotations, 1, ev)
          IN IF st4.rerun THEN st4
             ELSE ExportStep("venous_stent", st4, << >>, ev)

RunScript(v, anns, nid, points, objs, ev) ==
  IF v \in SideVariants THEN RunStenosisScript(anns, nid, points, ev)
  ELSE IF v = "test" THEN RunOcclusionScript(anns, nid, points, ev)
  ELSE RunCanvasScript(anns, nid, objs, ev)

(***************************************************************************)
(* main.py: the relay.                                                     *)
(***************************************************************************)
NoRequest == [method |-> "", path |-> ""]
NoResponse == [status |-> 0]

VALID_API_KEY == "8fc1b4fd80f5cb3c6e705a1428342c02"

\* mutant: the header is looked up under the name of the parameter
convert_underscores_verbatim(name) == name

\* Header(...) of a parameter: the header is looked up under the name of the
\* parameter with every underscore replaced by a hyphen
RECURSIVE convert_underscores(_)
convert_underscores(name) ==
  IF name = "" THEN ""
  ELSE (IF SubSeq(name, 1, 1) = "_" THEN "-" ELSE SubSeq(name, 1, 1))
         \o convert_underscores(SubSeq(name, 2, Len(name)))

\* the dependency verify_api_key(api_key: str = Header(...)).  The header is
\* required: without it the request is answered 422 before the function
\* body runs.  With it, the body raises HTTPException(403) unless the value
\* is VALID_API_KEY.  status 200 stands for "the dependency returned".
verify_api_key(headers) ==
  LET name == convert_underscores("api_key")
  IN IF name \notin DOMAIN headers
       THEN [status |-> 422, missing |-> << "header", name >>]
       ELSE IF headers[name] # VALID_API_KEY
         THEN [status |-> 403, body |-> [detail |-> "Invalid or missing API key"]]
         ELSE [status |-> 200]

\* @app.get("/")
read_root == [message |-> "Hello, this is your secure FastAPI backend!"]

\* mutant: the annotation is not echoed
save_annotation_noecho(annotation) == [status |-> "saved"]

\* @app.post("/save_annotation")
save_annotation(annotation) == [status |-> "saved", annotation |-> annotation]

\* the application's answer to a request on one of its two routes
app(req) ==
  LET verified == verify_api_key(req.headers)
  IN IF verified.status # 200 THEN verified
     ELSE IF req.method = "GET"
       THEN [status |-> 200, body |-> read_root]
       ELSE [status |-> 200, body |-> save_annotation(req.body)]

\* header names a client may use for the credential, and values it may send
HeaderNames == { "api_key", "api-key" }
HeaderValues ==
  { VALID_API_KEY, "8FC1B4FD80F5CB3C6E705A1428342C02", "wrong", "" }

\* the credential headers of a request: any of the names, each with a value
Headers == UNION { [names -> HeaderValues] : names \in SUBSET HeaderNames }

\* JSON objects posted as the body
Bodies ==
  { [id |-> 1, location |-> "Torcula"],
    [id |-> 1, x |-> 100, y |-> 200, location |-> "Torcula", value |-> "12"],
    [id |-> 2, x |-> 105, y |-> 203, location |-> "Sigmoid sinus",
     value |-> "12", side |-> "Left"],
    [id |-> 3, x |-> 100, y |-> 200, location |-> "Stenosis", value |-> "X"] }

Requests ==
  { [method |-> "GET", path |-> "/", headers |-> h] : h \in Headers }
    \cup
  { [method |-> "POST", path |-> "/save_annotation", headers |-> h,
     body |-> b] : h \in Headers, b \in Bodies }

(***************************************************************************)
(* The session.                                                            *)
(***************************************************************************)
Init ==
  /\ variant \in Variants
  /\ annotations = << >>
  /\ next_id = 1
  /\ clicked_points = << >>
  /\ rotation_angle = 0
  /\ new_clicked = << >>
  /\ figure_changed = FALSE
  /\ objects = << >>
  /\ forms = << >>
  /\ sidebar = << >>
  /\ markers = << >>
  /\ messages = << >>
  /\ sent = << >>
  /\ aborted = FALSE
  /\ rerun = FALSE
  /\ assigned_ids = {}
  /\ installed = {}
  /\ base_font = ""
  /\ drawn = << >>
  /\ summary = << >>
  /\ request = NoRequest
  /\ response = NoResponse

\* one run of the script of the session: nc is what plotly_events returns
\* in this run, objs what the canvas holds, ev the button that is down
Run(ev, nc, objs) ==
  \E points \in { IF variant \in PlotlyVariants
                     THEN CaptureClicks(clicked_points, nc)
                     ELSE clicked_points } :
  \E r \in { RunScript(variant, annotations, next_id, points, objs, ev) } :
     /\ r.next_id <= MaxId + 1
     /\ new_clicked' = nc
     /\ figure_changed' = (points # clicked_points)
     /\ objects' = objs
     /\ clicked_points' = points
     /\ annotations' = r.annotations
     /\ next_id' = r.next_id
     /\ forms' = r.forms
     /\ sidebar' = r.sidebar
     /\ markers' = r.markers
     /\ messages' = r.messages
     /\ sent' = r.sent
     /\ assigned_ids' = assigned_ids \cup
          { r.annotations[i].id : i \in 1..Len(r.annotations) }
     /\ installed' = r.installed
     /\ base_font' = r.base_font
     /\ drawn' = r.drawn
     /\ summary' = r.summary
     /\ aborted' = r.aborted
     /\ rerun' = r.rerun
     /\ UNCHANGED << variant, request, response >>

\* what plotly_events returns in a run not caused by a click: the last value
\* again, or the empty list when the figure it is given has changed (the
\* component has no key, so a figure with another marker or another rotation
\* is a new component)
Replayed == IF figure_changed THEN { << >> } ELSE { new_clicked }

\* one click on the plot is reported as a list of one point
ClickBatches == { << c >> : c \in Coords }

\* what plotly_events returns in the run a click on the plot starts: the
\* click, or the empty list when the plot on the page was rendered from a
\* figure that has changed since (the click went to the component of the
\* old figure, the run builds the component of the new one)
Reported == IF figure_changed THEN { << >> } ELSE ClickBatches

\* a click on the plot
ClickImage ==
  /\ variant \in PlotlyVariants
  /\ \E batch \in Reported : Run(PlainEvent("click"), batch, objects)
  /\ UNCHANGED rotation_angle

\* a click on the drawable canvas adds a circle
DrawPoint ==
  /\ variant = "venous_stent"
  /\ Len(objects) < MaxObjects
  /\ \E c \in CanvasCoords :
       Run(PlainEvent("click"), new_clicked, Append(objects, Circle(c)))
  /\ UNCHANGED rotation_angle

\* a change of a form widget: a run with no button down
Rerun ==
  /\ \E nc \in Replayed : Run(PlainEvent("none"), nc, objects)
  /\ UNCHANGED rotation_angle

\* the run the script runner starts after st.experimental_rerun(): no button
\* is down; a circle drawn in the meantime is on the canvas it reads.  (Any
\* other event that arrives before it is one of the other actions: they are
\* runs of the script as well and take the place of this one.)
ScriptRerun ==
  /\ rerun
  /\ \E objs \in { objects } \cup
                 { Append(objects, Circle(c)) :
                     c \in IF Len(objects) < MaxObjects THEN CanvasCoords ELSE {} } :
       \E nc \in Replayed : Run(PlainEvent("none"), nc, objs)
  /\ UNCHANGED rotation_angle

\* mutant: the image is turned the other way
Rotate_back(angle) == (angle + 270) % 360

\* st.session_state.rotation_angle = (rotation_angle + 90) % 360
Rotate(angle) == (angle + 90) % 360

RotateImage ==
  /\ variant \in SideVariants
  /\ rotation_angle' = Rotate(rotation_angle)
  /\ Run(PlainEvent("rotate"), << >>, objects)

\* the side selectbox exists only in the Stenosis scripts and only while the
\* chosen location is in SIDE_REQUIRED
SideInputs(v, location) ==
  IF v \in SideVariants /\ location \in SIDE_REQUIRED
    THEN Range(SIDES) ELSE { "Select..." }

\* the pressure field is shown for the locations with a measurement
TextInputs(location) ==
  IF location = "Select..." THEN { "" }
  ELSE IF location \in { "Stenosis", "Occlusion" } THEN StaleValueInputs
  ELSE ValueInputs

\* only beefed_up_venous.py calls the relay, and only for a submission that
\* passed the side check
RelayInputs(v, location, side) ==
  IF /\ v = "beefed_up_venous"
     /\ location # "Select..."
     /\ ~(location \in SIDE_REQUIRED /\ side = "Select...")
    THEN RelayOutcomes ELSE { 200 }

\* the Save Annotation / Add Annotation button of a rendered form
SaveAnnotation ==
  /\ \E pt \in Range(forms), location \in LocationChoices(variant),
        nc \in Replayed :
       \E side \in SideInputs(variant, location),
          text \in TextInputs(location) :
         \E relay \in RelayInputs(variant, location, side) :
           Run(Event("save", pt, location, side, text, 0, relay), nc, objects)
  /\ UNCHANGED rotation_angle

\* a Delete button of the sidebar
DeleteAnnotation ==
  /\ \E id \in Range(sidebar), nc \in Replayed :
       Run(Event("delete", NoPoint, "Select...", "Select...", "", id, 200), nc, objects)
  /\ UNCHANGED rotation_angle

\* the font files of the machine a session runs on: all of them or none
SessionFonts == { Range(FONTS), {} }

\* Generate and Save Annotated Image
GenerateExport ==
  /\ \E nc \in Replayed, files \in SessionFonts :
       Run(ExportEvent(files), nc, objects)
  /\ UNCHANGED rotation_angle

Next ==
  \/ ClickImage
  \/ DrawPoint
  \/ Rerun
  \/ RotateImage
  \/ SaveAnnotation
  \/ DeleteAnnotation
  \/ ScriptRerun
  \/ GenerateExport

Spec == Init /\ [][Next]_vars

(***************************************************************************)
(* The export block on its own: step 5 of each of the four scripts applied *)
(* to the annotation collections a session of that script can hold.        *)
(***************************************************************************)
\* text typed into the pressure fields of the collections
ExportTexts == { "10", "12" }

\* the point of the i-th annotation of a collection; the points are further
\* apart than the tolerance
PointAt(i) == [x |-> 100 + 10 * i, y |-> 200]

\* the annotations the form of script v can save with id i for point pt
AnnotationsAt(v, i, pt) ==
  IF v \in StenosisScripts
    THEN UNION {
           { NewAnnotation(i, pt, location, side, AnnotationValue(location, text)) :
               side \in { sd \in SideInputs("beefed_up_venous", location) :
                            ~SideMissing(location, sd) },
               text \in ExportTexts } :
           location \in LocationChoices("beefed_up_venous") \ { "Select..." } }
    ELSE { [id |-> i, x |-> pt.x, y |-> pt.y, location |-> location,
            value |-> IF location = "Occlusion" THEN "OCL" ELSE text] :
             location \in LocationChoices(v) \ { "Select..." },
             text \in ExportTexts }

\* the collections of at most n annotations with ids 1, 2, ...
RECURSIVE Collections(_, _)
Collections(v, n) ==
  IF n = 0 THEN { << >> }
  ELSE LET shorter == Collections(v, n - 1)
       IN shorter \cup
            { Append(c, a) : c \in { sh \in shorter : Len(sh) = n - 1 },
                             a \in AnnotationsAt(v, n, PointAt(n)) }

ExportInit ==
  /\ variant \in Scripts
  /\ annotations \in Collections(variant, MaxId)
  /\ next_id = Len(annotations) + 1
  /\ clicked_points =
       IF variant = "venous_stent" THEN << >>
       ELSE [i \in 1..Len(annotations) |-> PointAt(i)]
  /\ objects =
       IF variant = "venous_stent"
         THEN [i \in 1..Len(annotations) |-> Circle(PointAt(i))]
         ELSE << >>
  /\ assigned_ids = 1..Len(annotations)
  /\ rotation_angle = 0
  /\ new_clicked = << >>
  /\ figure_changed = FALSE
  /\ forms = << >>
  /\ sidebar = << >>
  /\ markers = << >>
  /\ messages = << >>
  /\ sent = << >>
  /\ aborted = FALSE
  /\ rerun = FALSE
  /\ installed = {}
  /\ base_font = ""
  /\ drawn = << >>
  /\ summary = << >>
  /\ request = NoRequest
  /\ response = NoResponse

\* the export block of the session's script, with any set of font files
ExportCollection ==
  /\ \E files \in SUBSET Range(FONTS) :
     \E r \in { ExportStep(variant, StartRun(annotations, next_id),
                            clicked_points, ExportEvent(files)) } :
        /\ markers' = r.markers
        /\ messages' = r.messages
        /\ installed' = r.installed
        /\ base_font' = r.base_font
        /\ drawn' = r.drawn
        /\ summary' = r.summary
        /\ aborted' = r.aborted
  /\ UNCHANGED << variant, annotations, next_id, clicked_points,
                  rotation_angle, new_clicked, figure_changed, objects, forms,
                  sidebar, sent, rerun, assigned_ids, request, response >>

ExportNext == ExportCollection

ExportSpec == ExportInit /\ [][ExportNext]_vars

(***************************************************************************)
(* The relay on its own: main.py answers one request after the other and   *)
(* has no variable that outlives a request.                                *)
(***************************************************************************)
RelayInit == Init /\ variant = "beefed_up_venous"

HandleRequest ==
  /\ \E req \in Requests :
        /\ request' = req
        /\ response' = app(req)
  /\ UNCHANGED << variant, annotations, next_id, clicked_points,
                  rotation_angle, new_clicked, figure_changed, objects, forms,
                  sidebar, markers, messages, sent, aborted, rerun, assigned_ids, installed,
                  base_font, drawn, summary >>

RelayNext == HandleRequest

RelaySpec == RelayInit /\ [][RelayNext]_vars

(***************************************************************************)
(* Properties.                                                             *)
(***************************************************************************)
A100_200 == [x |-> 100, y |-> 200]
B103_203 == [x |-> 103, y |-> 203]
C105_203 == [x |-> 105, y |-> 203]
D103_205 == [x |-> 103, y |-> 205]

\* a recorded point within 5 of c on both axes, written out from the claim
NearRecorded(c, points) ==
  \E i \in 1..Len(points) :
     /\ points[i].x - c.x < 5 /\ c.x - points[i].x < 5
     /\ points[i].y - c.y < 5 /\ c.y - points[i].y < 5

\* C1: in every run of a script with add_clicked_point, the point c the plot
\* reports is appended to clicked_points exactly when no recorded point p has
\* |p.x - c.x| < 5 and |p.y - c.y| < 5; otherwise clicked_points is unchanged.
\* So (105,203) and (103,205), exactly 5 away from (100,200) on one axis, are
\* appended after it, and (103,203) is not.
C1_DuplicateRule ==
  [][ (variant \in PlotlyVariants /\ new_clicked' # << >>) =>
        LET c == new_clicked'[1]
        IN clicked_points' =
             IF NearRecorded(c, clicked_points)
               THEN clicked_points
               ELSE Append(clicked_points, c) ]_vars

\* (105,203) was appended after (100,200), then the click at (103,203) was not
C1_Witness ==
  /\ clicked_points = << A100_200, C105_203 >>
  /\ new_clicked = << B103_203 >>

\* C2: a run in which the plot reports the same click as in the run before,
\* or a click at the coordinates of a recorded point, leaves clicked_points
\* unchanged in length and content.
C2_ClickIdempotent ==
  [][ ( /\ variant \in PlotlyVariants
        /\ new_clicked' # << >>
        /\ \/ new_clicked' = new_clicked
           \/ new_clicked'[1] \in Range(clicked_points) )
      => clicked_points' = clicked_points ]_vars

\* the click at (100,200) was replayed in a later run caused by a button
C2_Witness ==
  /\ clicked_points = << A100_200 >>
  /\ new_clicked = << A100_200 >>
  /\ messages # << >>

\* some saved annotation within 5 of pt on both axes, written out from the claim
Covered(pt, anns) ==
  \E i \in 1..Len(anns) :
     /\ anns[i].x - pt.x < 5 /\ pt.x - anns[i].x < 5
     /\ anns[i].y - pt.y < 5 /\ pt.y - anns[i].y < 5

PendingPoints(points, anns) ==
  SelectSeq(points, LAMBDA pt : ~Covered(pt, anns))

\* the last run ended in an exception nothing caught: the relay call raised
\* (beefed_up_venous.py), a widget key was used twice (venous_stent.py) or
\* the table of an export had no rows
RunAborted == aborted

\* the last run reached the end of the script
RunCompleted == ~aborted /\ ~rerun

\* what C3 says of one run: its forms and, on export, its markers
ReconciledRun ==
  /\ forms' = PendingPoints(clicked_points', annotations)
  /\ (markers' # << >>) =>
       /\ Len(markers') = Len(clicked_points')
       /\ \A i \in 1..Len(markers') :
            /\ (markers'[i] = "green") <=> Covered(clicked_points'[i], annotations')
            /\ (markers'[i] = "red") <=> ~Covered(clicked_points'[i], annotations')

\* C3: in every run the input forms rendered are exactly the forms of the
\* recorded points that no saved annotation covers (|ann.x - pt.x| < 5 and
\* |ann.y - pt.y| < 5), in the order of the points, and an export draws one
\* marker per recorded point, green exactly when the point is covered and red
\* exactly when it is not.
C3_Reconciliation ==
  [][ (variant \in PlotlyVariants) => ReconciledRun ]_vars

\* the last run ended in an exception of send_annotation_to_api: of the
\* lookup of the secret (no request) or of requests.post
RelayRaised == variant = "beefed_up_venous" /\ aborted /\ base_font = ""

SecretMissing == RelayRaised /\ sent = << >>

\* the same for the runs that did not end in an exception of the relay call
C3_ExceptAborted ==
  [][ (variant \in PlotlyVariants /\ ~RelayRaised') => ReconciledRun ]_vars

\* anns without its i-th element
RemoveAt(anns, i) ==
  [k \in 1..(Len(anns) - 1) |-> IF k < i THEN anns[k] ELSE anns[k + 1]]

HasMessage(msgs, text, id) ==
  \E k \in 1..Len(msgs) : msgs[k].text = text /\ msgs[k].id = id

\* this step saved an annotation for pt: one annotation with pt's coordinates
\* was appended and reported
SavedFor(pt) ==
  /\ Len(annotations') = Len(annotations) + 1
  /\ SubSeq(annotations', 1, Len(annotations)) = annotations
  /\ annotations'[Len(annotations')].x = pt.x
  /\ annotations'[Len(annotations')].y = pt.y
  /\ HasMessage(messages', "Annotation added!", annotations'[Len(annotations')].id)

\* this step deleted the annotation that covered pt, and nothing else
DeletedFor(pt) ==
  \E i \in 1..Len(annotations) :
     /\ Covered(pt, << annotations[i] >>)
     /\ annotations' = RemoveAt(annotations, i)
     /\ HasMessage(messages', "Annotation deleted!", annotations[i].id)

PointStatusStep ==
  \A pt \in Range(clicked_points) :
     /\ (~Covered(pt, annotations) /\ Covered(pt, annotations')) => SavedFor(pt)
     /\ (Covered(pt, annotations) /\ ~Covered(pt, annotations')) => DeletedFor(pt)

\* C4: in the scripts that record click points, a recorded point turns from
\* Pending to Annotated only in a run that saves an annotation for that very
\* point, and from Annotated to Pending only in a run that deletes the
\* annotation covering it; every other run (a click, a rejected submission, a
\* rotation, an export, a save or delete for another point) leaves its status
\* as it was.
C4_PointStateMachine ==
  [][ (variant \in PlotlyVariants) => PointStatusStep ]_vars

\* (100,200) was annotated, deleted and annotated again while (105,203) stayed
\* pending
C4_Witness ==
  /\ variant = "beefed_up_venous"
  /\ clicked_points = << A100_200, C105_203 >>
  /\ Len(annotations) = 1
  /\ annotations[1].id = 2
  /\ annotations[1].x = 100
  /\ assigned_ids = {1, 2}
  /\ rotation_angle = 90

\* the recorded points of the session as coordinates
RecordedPoints ==
  IF variant \in PlotlyVariants THEN Range(clicked_points)
  ELSE { [x |-> objects[i].left, y |-> objects[i].top] : i \in 1..Len(objects) }

\* what a deleting run does
DeleteStep ==
  /\ \A k \in 1..Len(messages') :
        messages'[k].text = "Annotation deleted!" =>
          /\ Len(annotations') = Len(annotations) - 1
          /\ \A i \in 1..Len(annotations') : annotations'[i].id # messages'[k].id
  /\ Len(annotations') < Len(annotations) =>
       \E i \in 1..Len(annotations) :
          /\ annotations' = RemoveAt(annotations, i)
          /\ \A j \in 1..Len(annotations) : j # i => annotations[j].id # annotations[i].id
          /\ HasMessage(messages', "Annotation deleted!", annotations[i].id)
          /\ (variant = "venous_stent") <=> rerun'
          /\ clicked_points' = clicked_points
          /\ objects' = objects
          /\ next_id' = next_id
          /\ \A pt \in RecordedPoints :
                /\ (variant \in PlotlyVariants /\ Covered(pt, << annotations[i] >>))
                     => ~Covered(pt, annotations')
                /\ (pt.x = annotations[i].x /\ pt.y = annotations[i].y) =>
                     ~Covered(pt, annotations')

\* C5: a run that deletes removes exactly one annotation, the one with the id
\* of the Delete button; the others keep their fields and their order, the
\* click points (canvas objects) and next_id are unchanged, and every click
\* point the deleted annotation covered is pending afterwards: no annotation
\* is within the tolerance of it, which is what the next reconciliation pass
\* starts from.  venous_stent.py keeps no click points: there the circle the
\* annotation was saved for is pending (another circle drawn within the
\* tolerance of two annotations stays covered by the other one), and the
\* deleting run asks for the script to be run again.
C5_DeleteById ==
  [][ DeleteStep ]_vars

\* the run venous_stent.py asks for after a delete offers the form of every
\* pending circle, unless an exception ends it
C5_FormsAfterRerun ==
  [][ (rerun /\ ~RunAborted') =>
        \A pt \in RecordedPoints :
           ~Covered(pt, annotations) =>
              pt \in Range(forms') \/ Covered(pt, annotations') ]_vars

\* annotation 1 was deleted and annotation 2 is still there
C5_Witness ==
  /\ HasMessage(messages, "Annotation deleted!", 1)
  /\ Len(annotations) = 1
  /\ annotations[1].id = 2
  /\ Len(clicked_points) = 2

IdsDistinct(anns) ==
  \A i, j \in 1..Len(anns) : i # j => anns[i].id # anns[j].id

IdStep ==
  /\ IdsDistinct(annotations')
  /\ \A i \in 1..Len(annotations') : annotations'[i].id >= 1
  /\ \A i \in 1..Len(annotations') :
        annotations'[i] \notin Range(annotations) =>
          /\ annotations'[i].id \notin assigned_ids
          /\ \A k \in assigned_ids : annotations'[i].id > k
          /\ assigned_ids = {} => annotations'[i].id = 1

\* C6: after every run the ids in the annotation collection are pairwise
\* distinct and at least 1; an annotation created by the run has an id that
\* was never assigned before in the session and is greater than every id
\* assigned before (deleted ones included), and the first id assigned is 1.
C6_IdsIncrease ==
  [][ IdStep ]_vars

\* scenario 1 of the spec, then a delete and a second save: id 1 is not used
\* again
C6_Witness ==
  /\ assigned_ids = {1, 2}
  /\ Len(annotations) = 1
  /\ annotations[1] = [id |-> 2, x |-> 100, y |-> 200,
                       location |-> "Torcula", value |-> "12"]

SideError == "Please select a side (Left or Right) for this location."

\* the result of pressing Save in the form of pt with a side-required
\* location and the side still on "Select..."
RejectedRun(pt, location, text, relay) ==
  \E r \in { RunScript(variant, annotations, next_id, clicked_points, objects,
                       Event("save", pt, location, "Select...", text, 0, relay)) } :
     /\ r.annotations = annotations
     /\ r.next_id = next_id
     /\ r.sent = << >>
     /\ HasMessage(r.messages, SideError, 0)
     /\ pt \in Range(r.forms)
     /\ ~r.aborted

\* in the current state, every submission without a side is rejected
SideRejected ==
  \A pt \in Range(forms) :
     ~Covered(pt, annotations) =>
       \A location \in LocationChoices(variant) \cap SIDE_REQUIRED,
          text \in StaleValueInputs, relay \in RelayOutcomes :
         RejectedRun(pt, location, text, relay)

ValidationStep ==
  HasMessage(messages', SideError, 0) =>
    /\ annotations' = annotations
    /\ next_id' = next_id
    /\ clicked_points' = clicked_points
    /\ sent' = << >>
    /\ assigned_ids' = assigned_ids
    /\ \A pt \in Range(clicked_points) :
          Covered(pt, annotations') <=> Covered(pt, annotations)

\* C7: in beefed_up_venous.py, Save pressed in the form of a pending point
\* with a location of SIDE_REQUIRED and the side on "Select..." shows the
\* side error and changes nothing: no annotation is appended, next_id and the
\* click points stay, nothing is sent to the relay, the point keeps its form;
\* and every run that shows the side error has changed none of these.
C7_ValidationFailure ==
  /\ [] ((variant = "beefed_up_venous") => SideRejected)
  /\ [][ (variant = "beefed_up_venous") => ValidationStep ]_vars

\* scenario 3: a click, then a rejected submission
C7_Witness ==
  /\ HasMessage(messages, SideError, 0)
  /\ annotations = << >>
  /\ next_id = 1
  /\ Len(clicked_points) = 1
  /\ forms = clicked_points

\* C8: every saved annotation has a side field exactly when its location is
\* in SIDE_REQUIRED, and a stored side is "Left" or "Right".
C8_SideIffRequired ==
  \A i \in 1..Len(annotations) :
     /\ ("side" \in DOMAIN annotations[i]) <=> (annotations[i].location \in SIDE_REQUIRED)
     /\ ("side" \in DOMAIN annotations[i]) => annotations[i].side \in { "Left", "Right" }

\* one annotation with a side and one without
C8_Witness ==
  /\ Len(annotations) = 2
  /\ "side" \in DOMAIN annotations[1]
  /\ annotations[1].side = "Right"
  /\ "side" \notin DOMAIN annotations[2]

\* the vocabulary of the session's script
Vocabulary ==
  IF variant = "beefed_up_venous" THEN Range(LOCATIONS)
  ELSE IF variant = "test" THEN Range(LOCATIONS_test)
  ELSE Range(LOCATIONS_stent)

\* C9: every saved annotation's location is an entry of the script's
\* LOCATIONS list other than "Select...".
C9_LocationInVocabulary ==
  \A i \in 1..Len(annotations) :
     /\ annotations[i].location \in Vocabulary
     /\ annotations[i].location # "Select..."

\* two annotations were saved
C9_Witness ==
  /\ variant = "beefed_up_venous"
  /\ Len(annotations) = 2
  /\ annotations[1].location = "Sigmoid sinus"
  /\ annotations[2].location = "Torcula"

\* C10: a saved annotation with location "Stenosis" (beefed_up_venous.py)
\* has value "X", and one with location "Occlusion" (test.py,
\* venous_stent.py) has value "OCL".
C10_SentinelValue ==
  \A i \in 1..Len(annotations) :
     /\ (variant = "beefed_up_venous" /\ annotations[i].location = "Stenosis")
          => annotations[i].value = "X"
     /\ (variant \in { "test", "venous_stent" } /\ annotations[i].location = "Occlusion")
          => annotations[i].value = "OCL"

\* a Stenosis annotation next to a measured one
C10_Witness ==
  /\ variant = "beefed_up_venous"
  /\ Len(annotations) = 2
  /\ annotations[1].location = "Stenosis"
  /\ annotations[1].value = "X"
  /\ annotations[2].value = "12"

\* the location that stands for "no numeric measurement" in the script
Reserved(v) == IF v \in StenosisScripts THEN "Stenosis" ELSE "Occlusion"

\* the state shows the result of an export
Exported == base_font # ""

\* the annotations a summary has a row for, in the order of the collection
Measured(v, anns) ==
  SelectSeq(anns, LAMBDA a : a.location # Reserved(v))

\* C11: for every annotation collection of each of the four scripts, the
\* summary table an export builds has no row whose location is the reserved
\* location of the script ("Stenosis" or "Occlusion"), and it has one row for
\* every other annotation: as many rows as there are such annotations, and a
\* row with the value of each of them.
C11_SummaryExcludesReserved ==
  Exported =>
    /\ \A k \in 1..Len(summary) : summary[k][1] # Reserved(variant)
    /\ Len(summary) =
         Cardinality({ i \in 1..Len(annotations) :
                         annotations[i].location # Reserved(variant) })
    /\ \A i \in 1..Len(annotations) :
          annotations[i].location # Reserved(variant) =>
            \E k \in 1..Len(summary) : summary[k][2] = annotations[i].value

\* test.py exported an Occlusion and a measurement: one row
C11_Witness ==
  /\ variant = "test"
  /\ Exported
  /\ Len(annotations) = 2
  /\ annotations[1].location = "Occlusion"
  /\ annotations[2].location = "Torcula"
  /\ summary = << << "Torcula", "12" >> >>

\* what C12 says of the k-th row: the location of the annotation it stands
\* for, with the side in front when the annotation has one
SideInLocation(v, anns, rows) ==
  \A k \in 1..Len(rows) :
     LET a == Measured(v, anns)[k]
     IN rows[k][1] =
          IF "side" \in DOMAIN a /\ a.side # "Select..."
            THEN a.side \o " " \o a.location
            ELSE a.location

\* C12: in the two scripts with sides, for every annotation collection,
\* mixed ones included, the location of each summary row is
\* "{side} {location}" when the annotation has a side other than the
\* sentinel, and the annotation's location unchanged when it has no side.
C12_SideInLocation ==
  (Exported /\ variant \in StenosisScripts) =>
     SideInLocation(variant, annotations, summary)

\* the same for beefed_up_venous.py alone, whose fillna("") keeps the NaN of
\* a mixed frame out of the location
C12_WithFillna ==
  (Exported /\ variant = "beefed_up_venous") =>
     SideInLocation(variant, annotations, summary)

\* str ends with suffix
EndsWith(str, suffix) ==
  /\ Len(str) >= Len(suffix)
  /\ SubSeq(str, Len(str) - Len(suffix) + 1, Len(str)) = suffix

\* C13: the summary of every script has exactly the two fields location and
\* value, in that order, and keeps the order of the collection: its k-th row
\* stands for the k-th annotation that is not excluded, the first field names
\* that annotation's location and the second field is its stored value.
C13_ProjectionOrder ==
  Exported =>
    /\ Len(summary) = Len(Measured(variant, annotations))
    /\ \A k \in 1..Len(summary) :
          /\ Len(summary[k]) = 2
          /\ EndsWith(summary[k][1], Measured(variant, annotations)[k].location)
          /\ summary[k][2] = Measured(variant, annotations)[k].value

\* venous_stent.py exported two measurements with different values: the rows
\* have the order of the annotations
C13_Witness ==
  /\ variant = "venous_stent"
  /\ Exported
  /\ Len(annotations) = 2
  /\ annotations[1].id = 1
  /\ annotations[2].id = 2
  /\ summary = << << "Right sigmoid sinus", "12" >>, << "Torcula", "10" >> >>

\* the relay has answered a request
Answered == request # NoRequest

\* C14: on both routes, a request whose api_key header equals the static
\* secret exactly is answered 200, and every other request, with another
\* value in the header or without the header, is answered 403 with the
\* detail "Invalid or missing API key".
C14_CredentialCheck ==
  Answered =>
    IF /\ "api_key" \in DOMAIN request.headers
       /\ request.headers["api_key"] = VALID_API_KEY
      THEN response.status = 200
      ELSE /\ response.status = 403
           /\ response.body.detail = "Invalid or missing API key"

\* what the relay does instead: the credential is read from the header
\* "api-key"; 200 for the secret, 403 for another value, 422 without it
C14_AsRead ==
  Answered =>
    IF "api-key" \notin DOMAIN request.headers
      THEN response.status = 422
      ELSE IF request.headers["api-key"] = VALID_API_KEY
        THEN response.status = 200
        ELSE /\ response.status = 403
             /\ response.body.detail = "Invalid or missing API key"

\* the request carries the secret where the relay reads it
CorrectCredential(req) ==
  /\ "api-key" \in DOMAIN req.headers
  /\ req.headers["api-key"] = VALID_API_KEY

\* C15: whatever the relay handled before, a POST /save_annotation with the
\* correct credential and a JSON object B as body is answered with status
\* 200 and the body {"status": "saved", "annotation": B}; the answer is made
\* of the request alone, nothing of an earlier request is in it.
C15_SaveEchoes ==
  [][ (request'.method = "POST" /\ CorrectCredential(request')) =>
        response' = [status |-> 200,
                     body |-> [status |-> "saved",
                               annotation |-> request'.body]] ]_vars

\* the body {"id": 1, "location": "Torcula"} came back in the answer
C15_Witness ==
  /\ request.method = "POST"
  /\ request.path = "/save_annotation"
  /\ CorrectCredential(request)
  /\ request.body = [id |-> 1, location |-> "Torcula"]
  /\ response.status = 200
  /\ response.body.annotation = [id |-> 1, location |-> "Torcula"]

\* what C16 says of one run of beefed_up_venous.py
RelayStep ==
  /\ Len(annotations') > Len(annotations) =>
       /\ annotations' = Append(annotations, annotations'[Len(annotations')])
       /\ annotations'[Len(annotations')].id = next_id
       /\ next_id' = next_id + 1
       /\ clicked_points' = clicked_points
       /\ Len(sent') = 1
       /\ sent'[1].api_key = LocalSecret
       /\ sent'[1].json = annotations'[Len(annotations')]
       /\ HasMessage(messages', "Annotation successfully saved to backend!", 0)
             <=> sent'[1].status = 200
       /\ HasMessage(messages', "Failed to save annotation to backend.", 0)
             <=> sent'[1].status \notin { 200, 0 }
  /\ Len(annotations') <= Len(annotations) => sent' = << >>

\* C16: in beefed_up_venous.py every run that saves an annotation posts
\* exactly one request, with the local secret as api_key and the new
\* annotation as JSON body, and no other run posts anything; the run reports
\* "successfully saved to backend" exactly when the status is 200 and
\* "Failed to save" exactly when the relay answered with another status; the
\* request is not repeated, and whatever came back, annotations is the old
\* collection plus the new annotation, next_id is one higher and
\* clicked_points is unchanged.
C16_RelayReport ==
  [][ (variant = "beefed_up_venous") => RelayStep ]_vars

\* the same for the saving runs in which the secret could be read: there the
\* request is posted once, also when requests.post raises
C16_ExceptMissingSecret ==
  [][ (variant = "beefed_up_venous" /\ ~SecretMissing') => RelayStep ]_vars

\* the relay answered 403: one request, the failure is reported and the
\* annotation stays saved
C16_Witness ==
  /\ variant = "beefed_up_venous"
  /\ Len(sent) = 1
  /\ sent[1].status = 403
  /\ sent[1].json = annotations[Len(annotations)]
  /\ HasMessage(messages, "Failed to save annotation to backend.", 0)
  /\ HasMessage(messages, "Annotation added!", sent[1].json.id)
  /\ next_id = 2

\* the run reached the end of the script: step 4 listed every annotation the
\* session holds after the run, or every one it held when a Delete button
\* was down
PassCompleted ==
  \/ \A i \in 1..Len(annotations') : annotations'[i].id \in Range(sidebar')
  \/ /\ Len(annotations') < Len(annotations)
     /\ \A i \in 1..Len(annotations) : annotations[i].id \in Range(sidebar')

\* C17: no error ends a run of beefed_up_venous.py early: after a rejected
\* submission, an export without font files, a relay that answers 403 and a
\* relay call that raises, the run still goes through steps 4 and 5.
C17_NoErrorFatal ==
  [][ (variant = "beefed_up_venous") => PassCompleted ]_vars

\* the same for every run but the one the relay call raised in
C17_ExceptRaisingCall ==
  [][ (variant = "beefed_up_venous" /\ ~RunAborted') => PassCompleted ]_vars

\* the candidates in the order C18 gives
CandidateOrder == << "arialbd.ttf", "arial.ttf", "DejaVuSans-Bold.ttf" >>

NoCandidate == \A i \in 1..3 : CandidateOrder[i] \notin installed

FontWarned ==
  \E k \in 1..Len(messages) :
     messages[k].text =
       "No custom font available; falling back to default font (text may be small)."

\* the font an export loaded, its warning, the texts it drew and its summary
FontObtained ==
  /\ \/ \E i \in 1..3 :
           /\ CandidateOrder[i] \in installed
           /\ \A j \in 1..(i - 1) : CandidateOrder[j] \notin installed
           /\ base_font = CandidateOrder[i]
     \/ NoCandidate /\ base_font = "default"
  /\ FontWarned <=> NoCandidate
  /\ Len(drawn) = Len(annotations)
  /\ \A i \in 1..Len(drawn) :
        drawn[i].font \in Range(CandidateOrder) \cup { "default" }
  /\ Len(summary) = Len(Measured(variant, annotations))

\* C18: in the exports of beefed_up_venous.py, testv2.py and test.py, for
\* every set of font files that can be opened, the font loaded is the first
\* of arialbd.ttf, arial.ttf, DejaVuSans-Bold.ttf that can be opened, and the
\* built-in default font when none can; the warning is shown exactly when
\* none can; and the export goes on to its end: every annotation is drawn
\* with a font, the summary is built and no exception ends the run.
C18_FontFallback ==
  (Exported /\ variant # "venous_stent") => (FontObtained /\ ~RunAborted)

\* the same without the completion of the exports whose summary has no rows
C18_ExceptEmptySummary ==
  (Exported /\ variant # "venous_stent") =>
     (FontObtained /\ (RunAborted <=> summary = << >>))

\* testv2.py exported without any of the three files: default font, warning,
\* the Stenosis drawn as X and the measurement in the summary
C18_Witness ==
  /\ variant = "testv2"
  /\ Exported
  /\ installed = {}
  /\ base_font = "default"
  /\ FontWarned
  /\ Len(annotations) = 2
  /\ drawn = << [text |-> "X", font |-> "default"],
                [text |-> "12", font |-> "default"] >>
  /\ summary = << << "Torcula", "12" >> >>

IsPrefix(seq, longer) ==
  /\ Len(seq) <= Len(longer)
  /\ SubSeq(longer, 1, Len(seq)) = seq

\* C19: in the scripts that record click points, every run leaves the old
\* value of clicked_points as a prefix of the new one (so the value in any
\* earlier state is a prefix of the value in every later state: points are
\* never changed, reordered or removed), and a run that saves or deletes an
\* annotation leaves clicked_points as it was.
C19_ClickPointsGrow ==
  [][ (variant \in PlotlyVariants) =>
        /\ IsPrefix(clicked_points, clicked_points')
        /\ (annotations' # annotations) => clicked_points' = clicked_points
     ]_vars

\* both points are still recorded, in the order of the clicks, after the
\* annotation of the first was saved and deleted
C19_Witness ==
  /\ variant = "beefed_up_venous"
  /\ clicked_points = << A100_200, D103_205 >>
  /\ annotations = << >>
  /\ HasMessage(messages, "Annotation deleted!", 1)

\* the recorded points after the run, in the order the form loop visits them
PointsAfterRun ==
  IF variant \in PlotlyVariants THEN clicked_points'
  ELSE [i \in 1..Len(objects') |-> [x |-> objects'[i].left, y |-> objects'[i].top]]

\* the forms of the run are the forms of the points pending at its end
FormsFresh == forms' = PendingPoints(PointsAfterRun, annotations')

\* the markers of an export are those of the collections at its end
MarkersFresh ==
  (markers' # << >>) =>
     markers' = [i \in 1..Len(clicked_points') |->
                   IF Covered(clicked_points'[i], annotations')
                     THEN "green" ELSE "red"]

\* C20: in every run that reaches the end of the script, the forms offered
\* and the markers drawn split the recorded points as the annotations and
\* points stand at the end of that run, also when the run saved or deleted
\* an annotation.
C20_PartitionFresh ==
  [][ RunCompleted' => (FormsFresh /\ MarkersFresh) ]_vars

\* the part that holds: the markers, drawn in step 5 after the save and the
\* delete, and the forms of the runs that leave annotations alone
C20_FreshWhereUnchanged ==
  [][ RunCompleted' =>
        /\ MarkersFresh
        /\ (annotations' = annotations) => FormsFresh ]_vars

\* venous_stent.py has the script run again after a delete: the run that
\* follows the delete is fresh when it reaches the end of the script and
\* saves nothing
C20_FreshAfterRerun ==
  [][ (/\ rerun
       /\ RunCompleted'
       /\ Len(annotations') <= Len(annotations))
        => FormsFresh ]_vars

\* two points at least 5 apart on the x axis or on the y axis, written out
\* from the claim
Separated(p, q) ==
  \/ p.x - q.x >= 5 \/ q.x - p.x >= 5
  \/ p.y - q.y >= 5 \/ q.y - p.y >= 5

\* C21: in every reachable state of a script that records clicks with
\* add_clicked_point, any two distinct entries of clicked_points are at least
\* 5 apart on the x axis or at least 5 apart on the y axis.
C21_Separation ==
  (variant \in PlotlyVariants) =>
     \A i, j \in 1..Len(clicked_points) :
        i # j => Separated(clicked_points[i], clicked_points[j])

\* two points exactly 5 apart on the y axis are both recorded, after a click
\* between them was dropped
C21_Witness ==
  /\ variant = "test"
  /\ clicked_points = << A100_200, D103_205 >>
  /\ new_clicked = << B103_203 >>

\* the annotation a is within tolerance of the point pt on both axes
Near(a, pt) == Covered(pt, << a >>)

\* annotations and click points are matched one to one
Matching ==
  /\ \A k \in 1..Len(annotations) :
        /\ Cardinality({ i \in 1..Len(clicked_points) :
                           /\ clicked_points[i].x = annotations[k].x
                           /\ clicked_points[i].y = annotations[k].y }) = 1
        /\ \A i \in 1..Len(clicked_points) :
              Near(annotations[k], clicked_points[i]) =>
                /\ clicked_points[i].x = annotations[k].x
                /\ clicked_points[i].y = annotations[k].y
  /\ \A i \in 1..Len(clicked_points) :
        Cardinality({ k \in 1..Len(annotations) :
                        Near(annotations[k], clicked_points[i]) }) <= 1
  /\ Len(annotations) <= Len(clicked_points)

\* a run that removes an annotation changes the status of exactly one point
DeleteChangesOne ==
  Len(annotations') < Len(annotations) =>
    Cardinality({ i \in 1..Len(clicked_points) :
                    Covered(clicked_points[i], annotations)
                      # Covered(clicked_points[i], annotations') }) = 1

\* C22: in the scripts that record click points, after every run each saved
\* annotation has exactly the coordinates of one recorded point and is within
\* tolerance of no other recorded point, each recorded point has at most one
\* annotation within tolerance, there are no more annotations than points,
\* and a run that deletes an annotation turns exactly one point from
\* Annotated to Pending.
C22_OneToOne ==
  [][ (variant \in PlotlyVariants) => (Matching' /\ DeleteChangesOne) ]_vars

\* both recorded points carry their own annotation
C22_Witness ==
  /\ variant = "beefed_up_venous"
  /\ clicked_points = << A100_200, C105_203 >>
  /\ Len(annotations) = 2
  /\ annotations[1].x = 105
  /\ annotations[2].x = 100
  /\ Matching

\* this run appended a point to clicked_points
PointAppended ==
  /\ Len(clicked_points') = Len(clicked_points) + 1
  /\ SubSeq(clicked_points', 1, Len(clicked_points)) = clicked_points

\* C23: whenever a run of a script with add_clicked_point appends a point to
\* clicked_points, no saved annotation is within tolerance of the new point
\* on both axes, neither among the annotations the run started with nor
\* among those it ends with: the point enters as Pending.
C23_EntersPending ==
  [][ (variant \in PlotlyVariants /\ PointAppended) =>
        /\ ~Covered(clicked_points'[Len(clicked_points')], annotations)
        /\ ~Covered(clicked_points'[Len(clicked_points')], annotations')
        /\ clicked_points'[Len(clicked_points')] \in Range(forms') ]_vars

\* (103,205) was recorded by the click just made, next to the annotation of
\* (100,200), and has a form
C23_Witness ==
  /\ variant = "test"
  /\ clicked_points = << A100_200, D103_205 >>
  /\ new_clicked = << D103_205 >>
  /\ Len(annotations) = 1
  /\ annotations[1].x = 100
  /\ annotations[1].y = 200
  /\ forms = << D103_205 >>
  /\ messages = << >>

\* what C24 says of one run
WriterStep ==
  /\ clicked_points' # clicked_points =>
       /\ new_clicked' # << >>
       /\ ~NearRecorded(new_clicked'[1], clicked_points)
       /\ clicked_points' = Append(clicked_points, new_clicked'[1])
  /\ annotations' # annotations =>
       \/ /\ Len(annotations') = Len(annotations) + 1
          /\ SubSeq(annotations', 1, Len(annotations)) = annotations
          /\ HasMessage(messages', "Annotation added!",
                        annotations'[Len(annotations')].id)
       \/ \E i \in 1..Len(annotations) :
             /\ annotations' = RemoveAt(annotations, i)
             /\ HasMessage(messages', "Annotation deleted!", annotations[i].id)
  /\ next_id' # next_id =>
       /\ next_id' = next_id + 1
       /\ Len(annotations') = Len(annotations) + 1
  /\ rotation_angle' # rotation_angle =>
       /\ rotation_angle' = (rotation_angle + 90) % 360
       /\ clicked_points' = clicked_points
       /\ annotations' = annotations
       /\ next_id' = next_id
  /\ rotation_angle' \in { 0, 90, 180, 270 }
  /\ Exported' =>
       /\ clicked_points' = clicked_points
       /\ annotations' = annotations
       /\ next_id' = next_id
       /\ rotation_angle' = rotation_angle

\* C24: every run changes clicked_points only by appending the new click
\* that is no duplicate, annotations only by a reported save (one appended)
\* or a delete (one removed), next_id only by +1 together with a save, and
\* rotation_angle only by +90 modulo 360, so that it is always 0, 90, 180 or
\* 270; a run that rotates and a run that exports leave clicked_points,
\* annotations and next_id as they were.
C24_DesignatedWriters ==
  [][ WriterStep ]_vars

\* the image was turned three times after a point was recorded and annotated:
\* the point and the annotation have the coordinates of the click
C24_Witness ==
  /\ variant = "beefed_up_venous"
  /\ rotation_angle = 270
  /\ clicked_points = << A100_200 >>
  /\ Len(annotations) = 1
  /\ annotations[1].x = 100
  /\ annotations[1].y = 200
  /\ next_id = 2
  /\ messages = << >>
  /\ ~Exported


====
